---------------------------- MODULE Spec2Model ----------------------------
(***************************************************************************)
(* Model of src/src/core/video_decode.c: the session entry points          *)
(* (open_video_file, start_video_decode, the get_video_* accessors) and    *)
(* the decode worker thread (decode_thread_main) with its pacing           *)
(* (sleep_to_pts) and its publication of frames (convert_to_rgba8888).     *)
(*                                                                         *)
(* The FFmpeg calls are the environment: each one is a nondeterministic    *)
(* choice over the results the code distinguishes.  Unchecked allocations  *)
(* (malloc at line 165, av_malloc at line 245) are taken to succeed.       *)
(***************************************************************************)
EXTENDS Integers, Sequences, FiniteSets, TLC

\* ------------------------------------------------------------------ bounds

\* Number of open_video_file calls the caller may make.
MaxOpens == 2
\* Library failures (submit errors, decode errors) injected in one run.
MaxFaults == 1
\* Frames the decoder may hold back before it must output one.
MaxDelay == 2
\* Ticks of the playback clock a pass may last when the worker is not asleep.
MaxElapsed == 2
\* Microseconds per tick of the discrete clock.
TickUs == 250000
\* Largest magnitude of a decode timestamp given to sleep_to_pts on its own.
MaxTs == 15
\* Largest width and height of a frame given to convert_to_rgba8888 on its own.
MaxDim == 2

\* ------------------------------------------------------- program constants

NULL == 0
PLAY_SPEED == 1
AVERROR_EAGAIN == -11
AVERROR_ENOMEM == -12
AVERROR_EOF == -541478725
\* Any other negative library result.
AVERROR_INVALIDDATA == -1094995529
\* Stands for INT64_MIN, outside every timestamp of the model.
AV_NOPTS_VALUE == -(2^30)
AVERROR_STREAM_NOT_FOUND == -1381258232

\* A byte of a block malloc returned and nobody wrote yet.
Indeterminate == -1

\* ------------------------------------------------------------ pure helpers

\* C's conversion of a real quotient to an integer: truncation toward zero.
TruncDiv(a, b) ==
    IF (a >= 0) = (b > 0) THEN (IF a >= 0 THEN a ELSE -a) \div (IF b > 0 THEN b ELSE -b)
    ELSE -((IF a >= 0 THEN a ELSE -a) \div (IF b > 0 THEN b ELSE -b))

Max(a, b) == IF a >= b THEN a ELSE b

\* The media files of the model.  time_base is the video stream's rational
\* time base; packets are what av_read_frame yields, in order; stream 0 is
\* the video stream when has_video, stream 1 an audio stream.
Files ==
    << [time_base |-> <<1, 4>>, has_video |-> TRUE, w |-> 1, h |-> 1,
        pix_fmt |-> 0,
        packets |-> << [stream_index |-> 0, dts |-> 0],
                       [stream_index |-> 0, dts |-> 2] >>],
       [time_base |-> <<1, 2>>, has_video |-> TRUE, w |-> 1, h |-> 1,
        pix_fmt |-> 2,
        packets |-> << [stream_index |-> 1, dts |-> 0],
                       [stream_index |-> 0, dts |-> AV_NOPTS_VALUE],
                       [stream_index |-> 0, dts |-> 1] >>],
       [time_base |-> <<1, 4>>, has_video |-> FALSE, w |-> 0, h |-> 0,
        pix_fmt |-> 0,
        packets |-> << [stream_index |-> 1, dts |-> 0] >>] >>

FileIds == 1..Len(Files)

\* The packed RGBA bytes sws_scale produces for decoded frame f (the frame
\* decoded from packet number f of the container): w*h*4 bytes, tightly
\* packed (av_image_fill_arrays with alignment 1), different for each frame
\* at every position.
RgbaOf(f, w, h) == [j \in 1..(w * h * 4) |-> (f * 16 + j) % 256]


\* Failure codes a library call may return besides the ones the code names.
LibErrors == {AVERROR_ENOMEM, AVERROR_INVALIDDATA}

\* ------------------------------------------------------------------- state

VARIABLES
    \* the caller's thread
    pcM,            \* where the caller is: "idle" or a step of open_video_file
    o,              \* the locals of the running open_video_file call
    open_rets,      \* the values the open_video_file calls returned, in order
    open_calls,     \* the library calls the running (or last) open made
    open_failed,    \* <<>> or <<call, result>>: the first library call of the
                    \* running (or last) open that failed, and what it returned
    started,        \* start_video_decode was called
    \* the statics of video_decode.c
    s_fmt_ctx, s_dec_ctx, s_video_st, s_video_stream_index,
    s_video_w, s_video_h, s_crop_w, s_crop_h, s_video_fmt,
    s_decode_buf,
    \* the library's objects
    fmt_objs,       \* AVFormatContext objects by handle: [file, pos]
    dec_objs,       \* AVCodecContext objects by handle:
                    \* [width, height, pix_fmt, opened, queue, draining]
    mem,            \* the bytes of the block s_decode_buf points to
    copying,        \* the bytes a copy in progress is writing, or <<>>
    elapsed,        \* av_gettime() - s_duration_base, in ticks (read only
                    \* after init_duration has set s_duration_base)
    \* the worker thread
    pcW, phase, packet, ret, frame, framergb, sleep_left,
    faults,         \* library failures injected so far
    \* the external reader
    r_last,         \* the reader's last call and what it returned
    \* history of the current playback pass
    recv_log,       \* frames avcodec_receive_frame returned
    pub_log,        \* frames written to the published buffer
    \* history of the run
    recv_ret,       \* what the last avcodec_receive_frame call returned
    conv,           \* the first convert_to_rgba8888 call: "none", "begun", "done"
    setup_failed,   \* the call of the worker's setup that failed, or "none"
    \* a function of the module called on its own
    fn_call,        \* the function and its arguments, or NoCall
    fn_result       \* what it returned, or NoResult

callerVars == <<pcM, o, open_rets, open_calls, open_failed, started>>
sessionVars == <<s_fmt_ctx, s_dec_ctx, s_video_st, s_video_stream_index,
                 s_video_w, s_video_h, s_crop_w, s_crop_h, s_video_fmt>>
libVars == <<fmt_objs, dec_objs>>
bufVars == <<s_decode_buf, mem, copying>>
workerVars == <<pcW, phase, packet, ret, frame, framergb, sleep_left, faults,
                recv_log, pub_log, recv_ret, conv, setup_failed>>
fnVars == <<fn_call, fn_result>>
vars == <<callerVars, sessionVars, libVars, bufVars, workerVars, elapsed, r_last,
          fnVars>>

\* A packet with no data: what av_packet_unref and a failed av_read_frame
\* leave behind.
BlankPacket == [stream_index |-> 0, dts |-> AV_NOPTS_VALUE, idx |-> 0, data |-> FALSE]

\* s_video_st before any open: no stream.
NoStream == [ctx |-> NULL, index |-> -1]

NoLocals == [fname |-> 0, fmt_ctx |-> NULL, dec_ctx |-> NULL, video_stream_index |-> -1]

NoCall == [fn |-> "none"]
NoResult == <<>>

\* The program's state after construction.
ProgInit ==
    /\ pcM = "idle" /\ o = NoLocals /\ open_rets = <<>>
    /\ open_calls = <<>> /\ open_failed = <<>> /\ started = FALSE
    /\ s_fmt_ctx = NULL /\ s_dec_ctx = NULL /\ s_video_st = NoStream
    /\ s_video_stream_index = -1
    /\ s_video_w = 0 /\ s_video_h = 0 /\ s_crop_w = 0 /\ s_crop_h = 0
    /\ s_video_fmt = 0 /\ s_decode_buf = NULL
    /\ fmt_objs = <<>> /\ dec_objs = <<>>
    /\ mem = <<>> /\ copying = <<>> /\ elapsed = 0
    /\ pcW = "idle" /\ phase = "packet" /\ packet = BlankPacket /\ ret = 0
    /\ frame = 0 /\ framergb = <<>> /\ sleep_left = 0 /\ faults = 0
    /\ r_last = [fn |-> "none", val |-> 0]
    /\ recv_log = <<>> /\ pub_log = <<>>
    /\ recv_ret = 0 /\ conv = "none" /\ setup_failed = "none"

Init == ProgInit /\ fn_call = NoCall /\ fn_result = NoResult

\* ------------------------------------------------------ the caller (client)

\* The caller opens a file.  It opens again only while every earlier open
\* succeeded (an OpenError aborts the session) and before the worker runs.
CallOpen ==
    /\ pcM = "idle" /\ ~started
    /\ Len(open_rets) < MaxOpens
    /\ \A i \in 1..Len(open_rets) : open_rets[i] = 0
    /\ \E f \in FileIds : o' = [NoLocals EXCEPT !.fname = f]
    /\ pcM' = "avformat_open_input"
    /\ open_calls' = <<>> /\ open_failed' = <<>>
    /\ UNCHANGED <<open_rets, started, sessionVars, libVars, bufVars, workerVars,
                   elapsed, r_last, fnVars>>

\* ------------------------------------------------------- open_video_file

\* return r;
OpenReturn(r) ==
    /\ open_rets' = Append(open_rets, r)
    /\ pcM' = "idle"

OpenFrame == <<started, bufVars, workerVars, elapsed, r_last, fnVars>>

\* OpenInput opening the container straight into s_fmt_ctx.
OpenInput_IntoSession ==
    /\ pcM = "avformat_open_input"
    /\ open_calls' = Append(open_calls, "avformat_open_input")
    /\ \/ /\ fmt_objs' = Append(fmt_objs, [file |-> o.fname, pos |-> 0])
          /\ o' = [o EXCEPT !.fmt_ctx = Len(fmt_objs) + 1]
          /\ s_fmt_ctx' = Len(fmt_objs) + 1
          /\ pcM' = "avformat_find_stream_info"
          /\ UNCHANGED <<open_rets, open_failed>>
       \/ /\ \E e \in LibErrors : open_failed' = <<"avformat_open_input", e>>
          /\ OpenReturn(-1)
          /\ UNCHANGED <<o, fmt_objs, s_fmt_ctx>>
    /\ UNCHANGED <<dec_objs, s_dec_ctx, s_video_st, s_video_stream_index,
                   s_video_w, s_video_h, s_crop_w, s_crop_h, s_video_fmt,
                   OpenFrame>>

\* avformat_open_input and its check.
OpenInput ==
    /\ pcM = "avformat_open_input"
    /\ open_calls' = Append(open_calls, "avformat_open_input")
    /\ \/ /\ fmt_objs' = Append(fmt_objs, [file |-> o.fname, pos |-> 0])
          /\ o' = [o EXCEPT !.fmt_ctx = Len(fmt_objs) + 1]
          /\ pcM' = "avformat_find_stream_info"
          /\ UNCHANGED <<open_rets, open_failed>>
       \/ /\ \E e \in LibErrors : open_failed' = <<"avformat_open_input", e>>
          /\ OpenReturn(-1)
          /\ UNCHANGED <<o, fmt_objs>>
    /\ UNCHANGED <<dec_objs, sessionVars, OpenFrame>>

\* OpenFindStreamInfo without the check of the result.
OpenFindStreamInfo_Unchecked ==
    /\ pcM = "avformat_find_stream_info"
    /\ open_calls' = Append(open_calls, "avformat_find_stream_info")
    /\ \/ UNCHANGED open_failed
       \/ \E e \in LibErrors : open_failed' = <<"avformat_find_stream_info", e>>
    /\ pcM' = "av_find_best_stream"
    /\ UNCHANGED <<open_rets, o, libVars, sessionVars, OpenFrame>>

\* avformat_find_stream_info and its check.
OpenFindStreamInfo ==
    /\ pcM = "avformat_find_stream_info"
    /\ open_calls' = Append(open_calls, "avformat_find_stream_info")
    /\ \/ /\ pcM' = "av_find_best_stream"
          /\ UNCHANGED <<open_rets, open_failed>>
       \/ \E e \in LibErrors :
             /\ open_failed' = <<"avformat_find_stream_info", e>>
             /\ OpenReturn(e)
    /\ UNCHANGED <<o, libVars, sessionVars, OpenFrame>>

\* OpenFindBestStream without the check of the result.
OpenFindBestStream_Unchecked ==
    /\ pcM = "av_find_best_stream"
    /\ open_calls' = Append(open_calls, "av_find_best_stream")
    /\ IF Files[o.fname].has_video
       THEN /\ o' = [o EXCEPT !.video_stream_index = 0]
            /\ UNCHANGED open_failed
       ELSE /\ open_failed' = <<"av_find_best_stream", AVERROR_STREAM_NOT_FOUND>>
            /\ o' = [o EXCEPT !.video_stream_index = AVERROR_STREAM_NOT_FOUND]
    /\ pcM' = "avcodec_alloc_context3"
    /\ UNCHANGED <<open_rets, libVars, sessionVars, OpenFrame>>

\* av_find_best_stream and its check: the index of the video stream, or a
\* failure when the container holds none.
OpenFindBestStream ==
    /\ pcM = "av_find_best_stream"
    /\ open_calls' = Append(open_calls, "av_find_best_stream")
    /\ IF Files[o.fname].has_video
       THEN /\ o' = [o EXCEPT !.video_stream_index = 0]
            /\ pcM' = "avcodec_alloc_context3"
            /\ UNCHANGED <<open_rets, open_failed>>
       ELSE /\ open_failed' = <<"av_find_best_stream", AVERROR_STREAM_NOT_FOUND>>
            /\ OpenReturn(AVERROR_STREAM_NOT_FOUND)
            /\ UNCHANGED o
    /\ UNCHANGED <<libVars, sessionVars, OpenFrame>>

\* avcodec_alloc_context3 with its check, then avcodec_parameters_to_context,
\* which copies the stream's dimensions and pixel format into the context.
OpenAllocContext ==
    /\ pcM = "avcodec_alloc_context3"
    /\ open_calls' = Append(open_calls, "avcodec_alloc_context3")
    /\ \/ /\ dec_objs' = Append(dec_objs,
                 [width |-> Files[o.fname].w, height |-> Files[o.fname].h,
                  pix_fmt |-> Files[o.fname].pix_fmt, opened |-> FALSE,
                  queue |-> <<>>, draining |-> FALSE])
          /\ o' = [o EXCEPT !.dec_ctx = Len(dec_objs) + 1]
          /\ pcM' = "avcodec_open2"
          /\ UNCHANGED <<open_rets, open_failed>>
       \/ /\ open_failed' = <<"avcodec_alloc_context3", NULL>>
          /\ OpenReturn(AVERROR_ENOMEM)
          /\ UNCHANGED <<o, dec_objs>>
    /\ UNCHANGED <<fmt_objs, sessionVars, OpenFrame>>

\* avcodec_open2 and its check.
OpenCodecOpen2 ==
    /\ pcM = "avcodec_open2"
    /\ open_calls' = Append(open_calls, "avcodec_open2")
    /\ \/ /\ dec_objs' = [dec_objs EXCEPT ![o.dec_ctx].opened = TRUE]
          /\ pcM' = "commit"
          /\ UNCHANGED <<open_rets, open_failed>>
       \/ \E e \in LibErrors :
             /\ open_failed' = <<"avcodec_open2", e>>
             /\ OpenReturn(e)
             /\ UNCHANGED dec_objs
    /\ UNCHANGED <<o, fmt_objs, sessionVars, OpenFrame>>

\* Lines 79-107: the session state is written, the crop rectangle is the
\* whole frame (the square crop is compiled out), and 0 is returned.
OpenCommit ==
    /\ pcM = "commit"
    /\ s_fmt_ctx' = o.fmt_ctx
    /\ s_dec_ctx' = o.dec_ctx
    /\ s_video_st' = [ctx |-> o.fmt_ctx, index |-> o.video_stream_index]
    /\ s_video_stream_index' = o.video_stream_index
    /\ s_video_w' = dec_objs[o.dec_ctx].width
    /\ s_video_h' = dec_objs[o.dec_ctx].height
    /\ s_video_fmt' = dec_objs[o.dec_ctx].pix_fmt
    /\ s_crop_w' = dec_objs[o.dec_ctx].width
    /\ s_crop_h' = dec_objs[o.dec_ctx].height
    /\ OpenReturn(0)
    /\ UNCHANGED <<o, open_calls, open_failed, libVars, OpenFrame>>

\* The last open_video_file call has returned, and returned r.
OpenReturned == pcM = "idle" /\ Len(open_rets) > 0
LastOpenRet == open_rets[Len(open_rets)]

\* ---------------------------------------------------- start_video_decode

\* The caller starts the worker at most once, after an open that succeeded.
CallerMayStart == OpenReturned /\ LastOpenRet = 0 /\ ~started

\* start_video_decode: pthread_create, the worker begins at the top of
\* decode_thread_main.
StartVideoDecode ==
    /\ CallerMayStart
    /\ started' = TRUE
    /\ pcW' = "alloc_frames"
    /\ UNCHANGED <<pcM, o, open_rets, open_calls, open_failed, sessionVars,
                   libVars, bufVars, phase, packet, ret, frame, framergb,
                   sleep_left, faults, recv_log, pub_log,
                   recv_ret, conv, setup_failed, elapsed, r_last, fnVars>>

\* ------------------------------------------------------------ the accessors

ReaderFrame == <<callerVars, sessionVars, libVars, bufVars, workerVars, elapsed,
                 fnVars>>

\* get_video_dimension reporting no size until a frame has been published.
GetVideoDimension_Published ==
    /\ r_last' = [fn |-> "get_video_dimension",
                  val |-> IF s_decode_buf = NULL THEN <<0, 0>>
                          ELSE <<s_crop_w, s_crop_h>>]
    /\ UNCHANGED ReaderFrame

\* get_video_dimension: *width = s_crop_w; *height = s_crop_h.
GetVideoDimension ==
    /\ r_last' = [fn |-> "get_video_dimension", val |-> <<s_crop_w, s_crop_h>>]
    /\ UNCHANGED ReaderFrame

\* get_video_pixformat: *pixformat = s_video_fmt.
GetVideoPixformat ==
    /\ r_last' = [fn |-> "get_video_pixformat", val |-> s_video_fmt]
    /\ UNCHANGED ReaderFrame

\* get_video_buffer allocating the buffer itself when there is none yet.
GetVideoBuffer_LazyAlloc ==
    /\ s_decode_buf' = 1
    /\ mem' = IF s_decode_buf = NULL
              THEN [j \in 1..(s_crop_w * s_crop_h * 4) |-> Indeterminate] ELSE mem
    /\ r_last' = [fn |-> "get_video_buffer", val |-> 1]
    /\ UNCHANGED <<callerVars, sessionVars, libVars, copying, workerVars, elapsed,
                   fnVars>>

\* get_video_buffer returning the address of the static instead of its value.
GetVideoBuffer_AddressOf ==
    /\ r_last' = [fn |-> "get_video_buffer", val |-> 1]
    /\ UNCHANGED <<callerVars, sessionVars, libVars, bufVars, workerVars, elapsed,
                   fnVars>>

\* get_video_buffer: *buf = s_decode_buf.
GetVideoBuffer ==
    /\ r_last' = [fn |-> "get_video_buffer", val |-> s_decode_buf]
    /\ UNCHANGED ReaderFrame

\* ------------------------------------------------- the clock and the reader

\* get_duration_us: av_gettime() - s_duration_base.
get_duration_us == elapsed * TickUs

\* Time passes.  A sleeping worker's remaining sleep runs down; av_usleep
\* may return late but never early.
Tick ==
    /\ \/ elapsed < MaxElapsed
       \/ (pcW = "av_usleep" /\ sleep_left > 0)
    /\ elapsed' = elapsed + 1
    /\ sleep_left' = IF pcW = "av_usleep" THEN Max(0, sleep_left - TickUs)
                     ELSE sleep_left
    /\ UNCHANGED <<callerVars, sessionVars, libVars, bufVars, pcW, phase,
                   packet, ret, frame, framergb, faults, recv_log, pub_log,
                   recv_ret, conv, setup_failed, r_last, fnVars>>

\* What a read of the whole buffer can observe: the block's bytes, and while
\* a copy into it is in progress (no lock, no atomic publish), at each
\* position either the old byte or the byte being copied in.
Snapshots ==
    IF copying = <<>> THEN {mem}
    ELSE {[j \in DOMAIN mem |-> IF j \in S THEN copying[j] ELSE mem[j]] :
            S \in SUBSET (DOMAIN copying)}

\* The frame byte b at position j belongs to (RgbaOf read backwards), or
\* Indeterminate for a byte nobody wrote.
FrameOfByte(b, j) == IF b = Indeterminate THEN Indeterminate ELSE ((b - j) % 256) \div 16

\* The frames a snapshot holds bytes of.
FramesIn(snap) == {FrameOfByte(snap[j], j) : j \in DOMAIN snap}

\* The renderer reads the frame through the reference get_video_buffer
\* returned; what is kept of the read is which frames its bytes came from.
ReadBuffer ==
    /\ r_last.fn = "get_video_buffer" /\ r_last.val # NULL
    /\ \E snap \in Snapshots : r_last' = [fn |-> "read", val |-> FramesIn(snap)]
    /\ UNCHANGED ReaderFrame

\* ------------------------------------------------------------- the decoder

Dec == dec_objs[s_dec_ctx]
Fmt == fmt_objs[s_fmt_ctx]
Container == Files[Fmt.file].packets

\* avcodec_send_packet accepted pkt: a packet with data is queued for
\* decoding (its frame is the one numbered like the packet), a packet
\* without data puts the decoder into draining mode.
DecSend(d, pkt) ==
    IF pkt.data THEN [d EXCEPT !.queue = Append(d.queue, pkt.idx)]
    ELSE [d EXCEPT !.draining = TRUE]

\* Results of avcodec_receive_frame on decoder d, as <<ret, frame>>: the
\* oldest queued frame; EAGAIN while the decoder, not draining, holds back
\* at most MaxDelay frames; EOF when a draining decoder is empty; and, while
\* failures may still be injected, an error.
DecReceive(d) ==
    {<<0, Head(d.queue)>> : x \in IF d.queue # <<>> THEN {0} ELSE {}}
    \cup {<<AVERROR_EAGAIN, 0>> : x \in IF ~d.draining /\ Len(d.queue) <= MaxDelay
                                       THEN {0} ELSE {}}
    \cup {<<AVERROR_EOF, 0>> : x \in IF d.draining /\ d.queue = <<>>
                                    THEN {0} ELSE {}}
    \cup {<<AVERROR_INVALIDDATA, 0>> : x \in IF faults < MaxFaults THEN {0} ELSE {}}

\* The decoder after avcodec_receive_frame returned result r.
DecAfterReceive(d, r) ==
    IF r[1] = 0 THEN [d EXCEPT !.queue = Tail(d.queue)] ELSE d

\* ------------------------------------------------------------------ pacing

\* The time base of s_video_st, as <<numerator, denominator>>.
time_base == Files[fmt_objs[s_video_st.ctx].file].time_base

\* Line 223 multiplies in double precision.  A positive double is modelled
\* as [m, e], the value m * 2^e, with m a natural number of at most
\* DBL_MANT_DIG bits kept as a little-endian sequence of limbs of LimbBits
\* bits; results are rounded to nearest, ties to even.
LimbBits == 13
LimbBase == 2^LimbBits
DBL_MANT_DIG == 53
\* Limbs of zeros appended to a dividend so that the quotient has more than
\* DBL_MANT_DIG bits.
GuardLimbs == 6

\* The operations below are functions, so that every operand is evaluated
\* once, at the application.
BigNat == Seq(0..(LimbBase - 1))
Dbl == [m : BigNat, e : Int]

BigOfInt[n \in Nat] ==
    IF n = 0 THEN <<>> ELSE <<n % LimbBase>> \o BigOfInt[n \div LimbBase]

BigToInt[a \in BigNat] ==
    IF a = <<>> THEN 0 ELSE Head(a) + LimbBase * BigToInt[Tail(a)]

\* a without its leading zero limbs.
BigTrim[a \in BigNat] ==
    IF a = <<>> THEN <<>>
    ELSE IF a[Len(a)] = 0 THEN BigTrim[SubSeq(a, 1, Len(a) - 1)] ELSE a

\* a * s + carry, for s below 2^17.
BigMulSmall[a \in BigNat, s \in Nat, carry \in Nat] ==
    IF a = <<>> THEN BigOfInt[carry]
    ELSE <<(Head(a) * s + carry) % LimbBase>>
             \o BigMulSmall[Tail(a), s, (Head(a) * s + carry) \div LimbBase]

\* One step of the long division by s: the limb below the quotient and
\* remainder hi of the higher limbs.
BigDivStep[hi \in BigNat \X Nat, limb \in Nat, s \in Nat] ==
    << <<(hi[2] * LimbBase + limb) \div s>> \o hi[1],
       (hi[2] * LimbBase + limb) % s >>

\* <<a \div s, a % s>>, for s below 2^18.
BigDivSmall[a \in BigNat, s \in Nat] ==
    IF a = <<>> THEN << <<>>, 0 >>
    ELSE BigDivStep[BigDivSmall[Tail(a), s], Head(a), s]

BigAddOne[a \in BigNat] ==
    IF a = <<>> THEN <<1>>
    ELSE IF Head(a) + 1 < LimbBase THEN <<Head(a) + 1>> \o Tail(a)
    ELSE <<0>> \o BigAddOne[Tail(a)]

BitsOf[n \in Nat] == IF n = 0 THEN 0 ELSE 1 + BitsOf[n \div 2]

BigBits[a \in BigNat] ==
    IF a = <<>> THEN 0 ELSE LimbBits * (Len(a) - 1) + BitsOf[a[Len(a)]]

\* The results of BigShiftRight.
Shifted == [q : BigNat, half : BOOLEAN, rest : BOOLEAN]

\* The parts of a shift of a by limbs whole limbs and bits further bits, qr
\* being the higher limbs divided by 2^bits.
BigShiftParts[a \in BigNat, limbs \in Nat, bits \in Nat, qr \in BigNat \X Nat] ==
    [q |-> BigTrim[qr[1]],
     half |-> qr[2] >= 2^(bits - 1),
     rest |-> (qr[2] % 2^(bits - 1) # 0)
                 \/ (\E i \in 1..limbs : i <= Len(a) /\ a[i] # 0)]

\* BigShiftRight for s > 0, limbs being the whole limbs shifted out before
\* the last 1..LimbBits bits.
BigShiftLimbs[a \in BigNat, s \in Nat, limbs \in Nat] ==
    BigShiftParts[a, limbs, s - limbs * LimbBits,
                  BigDivSmall[SubSeq(a, limbs + 1, Len(a)),
                              2^(s - limbs * LimbBits)]]

\* a shifted right by s bits: the quotient q, whether the highest bit shifted
\* out is set (half), and whether any lower bit shifted out is set (rest).
BigShiftRight[a \in BigNat, s \in Nat] ==
    IF s = 0 THEN [q |-> a, half |-> FALSE, rest |-> FALSE]
    ELSE BigShiftLimbs[a, s, (s - 1) \div LimbBits]

\* Round to nearest, ties to even: the shifted value sh, one more when the
\* dropped part is above a half, or is a half and the kept part is odd.
RoundNearestEven[sh \in Shifted, sticky \in BOOLEAN] ==
    IF sh.half /\ (sh.rest \/ sticky \/ (sh.q # <<>> /\ sh.q[1] % 2 = 1))
    THEN BigAddOne[sh.q]
    ELSE sh.q

\* RoundToMant for a value a without leading zero limbs, s being the bits to
\* drop.
RoundDropping[a \in BigNat, s \in Int, sticky \in BOOLEAN] ==
    IF s <= 0 THEN <<a, 0>>
    ELSE <<RoundNearestEven[BigShiftRight[a, s], sticky], s>>

\* The natural number x rounded to DBL_MANT_DIG bits, as <<mantissa, bits
\* dropped>>; sticky says that the exact value lies above x.
RoundTrimmed[a \in BigNat, sticky \in BOOLEAN] ==
    RoundDropping[a, BigBits[a] - DBL_MANT_DIG, sticky]

RoundToMant[x \in BigNat, sticky \in BOOLEAN] == RoundTrimmed[BigTrim[x], sticky]

\* The double with mantissa and dropped bits rm, scaled by 2^e.
DblOf[rm \in BigNat \X Nat, e \in Int] == [m |-> rm[1], e |-> rm[2] + e]

\* The double of a quotient and remainder qr of a division whose dividend
\* was scaled by GuardLimbs limbs.
DblOfQuotient[qr \in BigNat \X Nat] ==
    DblOf[RoundToMant[qr[1], qr[2] # 0], -(GuardLimbs * LimbBits)]

\* The double n / (double) d, for positive integers n and d.
DblDiv[n \in Nat, d \in Nat] ==
    DblOfQuotient[BigDivSmall[[i \in 1..GuardLimbs |-> 0] \o BigOfInt[n], d]]

\* The double x * s, for a positive integer s (exact as a double).
DblMulInt[x \in Dbl, s \in Nat] ==
    DblOf[RoundToMant[BigMulSmall[x.m, s, 0], FALSE], x.e]

\* The conversion of the double x to an integer: its integer part.
DblTrunc[x \in Dbl] ==
    IF x.e >= 0 THEN BigToInt[x.m] * 2^x.e
    ELSE BigToInt[BigShiftRight[x.m, -x.e].q]

\* av_q2d: q.num / (double) q.den.
av_q2d[q \in Nat \X Nat] == DblDiv[q[1], q[2]]

\* The integer p converted to double, multiplied by the double scale, and
\* converted back to an integer.
ScaledBy[p \in Int, scale \in Dbl] ==
    IF p = 0 THEN 0
    ELSE IF p > 0 THEN DblTrunc[DblMulInt[scale, p]]
    ELSE -DblTrunc[DblMulInt[scale, -p]]

\* pts_us with the magnitude of the timestamp in place of the timestamp.
pts_us_Magnitude(dts, tb) ==
    LET p0 == IF dts # AV_NOPTS_VALUE THEN dts ELSE 0
    IN  TruncDiv(ScaledBy[IF p0 > 0 THEN p0 ELSE -p0,
                          DblMulInt[DblMulInt[av_q2d[tb], 1000], 1000]],
                 PLAY_SPEED)

\* pts_us with a packet without timestamp taken to have timestamp 1.
pts_us_NoptsAsOne(dts, tb) ==
    TruncDiv(ScaledBy[IF dts # AV_NOPTS_VALUE THEN dts ELSE 1,
                      DblMulInt[DblMulInt[av_q2d[tb], 1000], 1000]],
             PLAY_SPEED)

\* pts_us in integer arithmetic, evaluated from left to right.
pts_us_IntegerOrder(dts, tb) ==
    LET p0 == IF dts # AV_NOPTS_VALUE THEN dts ELSE 0
    IN  TruncDiv(TruncDiv(p0 * tb[1], tb[2]) * 1000 * 1000, PLAY_SPEED)

\* sleep_to_pts, lines 218-224: the packet's decode timestamp (0 when it has
\* none) is converted to double and multiplied by the double
\* av_q2d(time_base) * 1000 * 1000, the product is converted back to an
\* integer; that is divided by PLAY_SPEED and converted back to an integer.
pts_us(dts, tb) ==
    TruncDiv(ScaledBy[IF dts # AV_NOPTS_VALUE THEN dts ELSE 0,
                      DblMulInt[DblMulInt[av_q2d[tb], 1000], 1000]],
             PLAY_SPEED)

\* Time bases of video streams: 1/4 and 1/2 as in Files, 1/128 (7812.5
\* microseconds per unit) and 1001/30000 (the NTSC frame duration).
TimeBases == {<<1, 4>>, <<1, 2>>, <<1, 128>>, <<1001, 30000>>}

\* Decode timestamps of packets: negative, zero, positive, and none.
Timestamps == (-MaxTs..MaxTs) \cup {AV_NOPTS_VALUE}

\* sleep_to_pts, line 226: delay_us = pts_us - get_duration_us().
delay_us(pkt) == pts_us(pkt.dts, time_base) - get_duration_us

\* -------------------------------------------------------- the pixel converter

\* The offset that puts the crop at the far edge instead of the centre.
CropOffset_Uncentered(video, crop) == video - crop

\* on_frame_decoded, lines 192-193: (int)((video - crop) * 0.5f).
CropOffset(video, crop) == TruncDiv(video - crop, 2)

\* convert_to_rgba8888 copying row by row whatever the offsets are.
ConvertToRgba8888_RowWise(data, linesize, ofstx, ofsty, width, height) ==
    [j \in 1..(width * height * 4) |->
        LET y == (j - 1) \div (width * 4)
            x == (j - 1) % (width * 4)
        IN  data[(y + ofsty) * linesize + ofstx * 4 + x + 1]]

\* convert_to_rgba8888 taking the source rows to be as long as the output's.
ConvertToRgba8888_TightRows(data, linesize, ofstx, ofsty, width, height) ==
    IF ofstx = 0 /\ ofsty = 0
    THEN [j \in 1..(width * height * 4) |-> data[j]]
    ELSE [j \in 1..(width * height * 4) |->
            LET y == (j - 1) \div (width * 4)
                x == (j - 1) % (width * 4)
            IN  data[(y + ofsty) * width * 4 + ofstx * 4 + x + 1]]

\* convert_to_rgba8888 copying one byte too few.
ConvertToRgba8888_Short(data, linesize, ofstx, ofsty, width, height) ==
    [j \in 1..(width * height * 4 - 1) |-> data[j]]

\* convert_to_rgba8888: the bytes written to the destination, in order.  data
\* is the frame's first plane (1-based here), linesize its row stride.
ConvertToRgba8888(data, linesize, ofstx, ofsty, width, height) ==
    IF ofstx = 0 /\ ofsty = 0
    THEN [j \in 1..(width * height * 4) |-> data[j]]
    ELSE [j \in 1..(width * height * 4) |->
            LET y == (j - 1) \div (width * 4)
                x == (j - 1) % (width * 4)
            IN  data[(y + ofsty) * linesize + ofstx * 4 + x + 1]]

\* -------------------------------------------------------- decode_thread_main

\* What each worker step leaves alone besides what it names.
WorkerFrame == <<callerVars, sessionVars, r_last, fnVars, setup_failed>>

\* AllocFrames without the check of the two frames.
AllocFrames_Unchecked ==
    /\ pcW = "alloc_frames"
    /\ \/ setup_failed' = "none"
       \/ setup_failed' = "av_frame_alloc"
    /\ pcW' = "sws_getContext"
    /\ UNCHANGED <<libVars, bufVars, phase, packet, ret, frame, framergb,
                   sleep_left, faults, recv_log, pub_log,
                   recv_ret, conv, elapsed, callerVars, sessionVars, r_last,
                   fnVars>>

\* Lines 233-239: the two av_frame_alloc calls and their check: the thread
\* returns when either gave NULL.
AllocFrames ==
    /\ pcW = "alloc_frames"
    /\ \/ pcW' = "sws_getContext" /\ setup_failed' = "none"
       \/ pcW' = "done" /\ setup_failed' = "av_frame_alloc"
    /\ UNCHANGED <<libVars, bufVars, phase, packet, ret, frame, framergb,
                   sleep_left, faults, recv_log, pub_log,
                   recv_ret, conv, elapsed, callerVars, sessionVars, r_last,
                   fnVars>>

\* Lines 241-256: the RGBA frame's buffer and the scaling context, with the
\* check of the context: the thread returns when sws_getContext gave NULL.
SwsGetContext ==
    /\ pcW = "sws_getContext"
    /\ \/ pcW' = "init_duration" /\ UNCHANGED setup_failed
       \/ pcW' = "done" /\ setup_failed' = "sws_getContext"
    /\ UNCHANGED <<libVars, bufVars, phase, packet, ret, frame, framergb,
                   sleep_left, faults, recv_log, pub_log,
                   recv_ret, conv, elapsed, callerVars, sessionVars, r_last,
                   fnVars>>

\* Line 262: a playback pass begins, init_duration sets s_duration_base to
\* av_gettime().
InitDuration ==
    /\ pcW = "init_duration"
    /\ elapsed' = 0
    /\ phase' = "packet"
    /\ recv_log' = <<>> /\ pub_log' = <<>>
    /\ pcW' = "av_read_frame"
    /\ UNCHANGED <<libVars, bufVars, packet, ret, frame, framergb, sleep_left,
                   faults, recv_ret, conv, WorkerFrame>>

\* ReadFrame going straight to the seek at the end of the container, the
\* decoder not flushed.
ReadFrame_NoFlush ==
    /\ pcW = "av_read_frame"
    /\ IF Fmt.pos < Len(Container)
       THEN /\ packet' = [stream_index |-> Container[Fmt.pos + 1].stream_index,
                          dts |-> Container[Fmt.pos + 1].dts,
                          idx |-> Fmt.pos + 1, data |-> TRUE]
            /\ fmt_objs' = [fmt_objs EXCEPT ![s_fmt_ctx].pos = @ + 1]
            /\ pcW' = IF Container[Fmt.pos + 1].stream_index = s_video_stream_index
                      THEN "avcodec_send_packet" ELSE "av_packet_unref"
       ELSE /\ packet' = BlankPacket
            /\ pcW' = "av_seek_frame"
            /\ UNCHANGED fmt_objs
    /\ UNCHANGED <<dec_objs, bufVars, phase, ret, frame, framergb, sleep_left,
                   faults, recv_log, pub_log, recv_ret, conv,
                   elapsed, WorkerFrame>>

\* ReadFrame without the test of the stream index: every packet goes to the
\* decoder.
ReadFrame_AnyStream ==
    /\ pcW = "av_read_frame"
    /\ IF Fmt.pos < Len(Container)
       THEN /\ packet' = [stream_index |-> Container[Fmt.pos + 1].stream_index,
                          dts |-> Container[Fmt.pos + 1].dts,
                          idx |-> Fmt.pos + 1, data |-> TRUE]
            /\ fmt_objs' = [fmt_objs EXCEPT ![s_fmt_ctx].pos = @ + 1]
            /\ pcW' = "avcodec_send_packet"
       ELSE /\ packet' = BlankPacket
            /\ pcW' = "flush_send"
            /\ UNCHANGED fmt_objs
    /\ UNCHANGED <<dec_objs, bufVars, phase, ret, frame, framergb, sleep_left,
                   faults, recv_log, pub_log, recv_ret, conv,
                   elapsed, WorkerFrame>>

\* Line 264-265: av_read_frame yields the next packet of the container, or
\* fails at its end and leaves the packet blank; a packet of the video stream
\* goes to the decoder, any other straight to av_packet_unref.
ReadFrame ==
    /\ pcW = "av_read_frame"
    /\ IF Fmt.pos < Len(Container)
       THEN /\ packet' = [stream_index |-> Container[Fmt.pos + 1].stream_index,
                          dts |-> Container[Fmt.pos + 1].dts,
                          idx |-> Fmt.pos + 1, data |-> TRUE]
            /\ fmt_objs' = [fmt_objs EXCEPT ![s_fmt_ctx].pos = @ + 1]
            /\ pcW' = IF Container[Fmt.pos + 1].stream_index = s_video_stream_index
                      THEN "avcodec_send_packet" ELSE "av_packet_unref"
       ELSE /\ packet' = BlankPacket
            /\ pcW' = "flush_send"
            /\ UNCHANGED fmt_objs
    /\ UNCHANGED <<dec_objs, bufVars, phase, ret, frame, framergb, sleep_left,
                   faults, recv_log, pub_log, recv_ret, conv,
                   elapsed, WorkerFrame>>

\* Lines 266-270: avcodec_send_packet; on failure the break leaves the
\* packet-read loop (the packet is not released).
SendPacket ==
    /\ pcW = "avcodec_send_packet"
    /\ \/ /\ dec_objs' = [dec_objs EXCEPT ![s_dec_ctx] = DecSend(@, packet)]
          /\ ret' = 0
          /\ pcW' = "avcodec_receive_frame"
          /\ UNCHANGED faults
       \/ /\ faults < MaxFaults
          /\ \E e \in LibErrors : ret' = e
          /\ faults' = faults + 1
          /\ pcW' = "flush_send"
          /\ UNCHANGED dec_objs
    /\ UNCHANGED <<fmt_objs, bufVars, phase, packet, frame, framergb,
                   sleep_left, recv_log, pub_log, recv_ret,
                   conv, elapsed, WorkerFrame>>

\* AfterReceive with every failure taken as a reason to stop draining.
AfterReceive_ErrorBreaks(r) == IF r < 0 THEN "av_packet_unref" ELSE "sws_scale"

\* AfterReceive with EAGAIN taken as a failure like any other.
AfterReceive_WouldBlockFatal(r) ==
    IF r = AVERROR_EOF THEN "av_packet_unref"
    ELSE IF r < 0 THEN "done"
    ELSE "sws_scale"

\* Lines 274-285: where the per-packet drain goes on a result of
\* avcodec_receive_frame: EAGAIN and EOF break to av_packet_unref, any other
\* failure returns from the thread, a frame is scaled.
AfterReceive(r) ==
    IF r = AVERROR_EAGAIN \/ r = AVERROR_EOF THEN "av_packet_unref"
    ELSE IF r < 0 THEN "done"
    ELSE "sws_scale"

\* Lines 272-285: one avcodec_receive_frame of the per-packet drain.
ReceiveFrame ==
    /\ pcW = "avcodec_receive_frame"
    /\ \E r \in DecReceive(Dec) :
          /\ ret' = r[1] /\ recv_ret' = r[1]
          /\ dec_objs' = [dec_objs EXCEPT ![s_dec_ctx] = DecAfterReceive(@, r)]
          /\ faults' = IF r[1] = AVERROR_INVALIDDATA THEN faults + 1 ELSE faults
          /\ frame' = IF r[1] = 0 THEN r[2] ELSE frame
          /\ recv_log' = IF r[1] = 0 THEN Append(recv_log, r[2]) ELSE recv_log
          /\ pcW' = AfterReceive(r[1])
    /\ UNCHANGED <<fmt_objs, bufVars, phase, packet, framergb, sleep_left,
                   pub_log, conv, elapsed, WorkerFrame>>

\* SwsScale with the frame published first: on_frame_decoded before
\* sleep_to_pts.
SwsScale_PublishFirst ==
    /\ pcW = "sws_scale"
    /\ framergb' = RgbaOf(frame, Dec.width, Dec.height)
    /\ pcW' = "on_frame_decoded"
    /\ UNCHANGED <<libVars, bufVars, phase, packet, ret, frame, sleep_left,
                   faults, recv_log, pub_log, recv_ret, conv,
                   elapsed, WorkerFrame>>

\* Lines 287-289 and 306-307: sws_scale fills framergb from frame.
SwsScale ==
    /\ pcW = "sws_scale"
    /\ framergb' = RgbaOf(frame, Dec.width, Dec.height)
    /\ pcW' = "sleep_to_pts"
    /\ UNCHANGED <<libVars, bufVars, phase, packet, ret, frame, sleep_left,
                   faults, recv_log, pub_log, recv_ret, conv,
                   elapsed, WorkerFrame>>

\* sleep_to_pts dropping a frame that is behind the clock.
SleepToPts_DropLate ==
    /\ pcW = "sleep_to_pts"
    /\ IF delay_us(packet) > 0
       THEN sleep_left' = delay_us(packet) /\ pcW' = "av_usleep"
       ELSE /\ sleep_left' = 0
            /\ pcW' = IF delay_us(packet) = 0 THEN "on_frame_decoded"
                      ELSE IF phase = "packet" THEN "avcodec_receive_frame"
                      ELSE "flush_receive"
    /\ UNCHANGED <<libVars, bufVars, phase, packet, ret, frame, framergb,
                   faults, recv_log, pub_log, recv_ret, conv,
                   elapsed, WorkerFrame>>

\* sleep_to_pts sleeping until the deadline has passed once more, whatever
\* time of the pass has elapsed already.
SleepToPts_FullDeadline ==
    /\ pcW = "sleep_to_pts"
    /\ IF pts_us(packet.dts, time_base) > 0
       THEN sleep_left' = pts_us(packet.dts, time_base) /\ pcW' = "av_usleep"
       ELSE sleep_left' = 0 /\ pcW' = "on_frame_decoded"
    /\ UNCHANGED <<libVars, bufVars, phase, packet, ret, frame, framergb,
                   faults, recv_log, pub_log, recv_ret, conv,
                   elapsed, WorkerFrame>>

\* Lines 226-229: the worker sleeps for delay_us when that is positive and
\* goes straight on otherwise.
SleepToPts ==
    /\ pcW = "sleep_to_pts"
    /\ IF delay_us(packet) > 0
       THEN sleep_left' = delay_us(packet) /\ pcW' = "av_usleep"
       ELSE sleep_left' = 0 /\ pcW' = "on_frame_decoded"
    /\ UNCHANGED <<libVars, bufVars, phase, packet, ret, frame, framergb,
                   faults, recv_log, pub_log, recv_ret, conv,
                   elapsed, WorkerFrame>>

\* av_usleep returns once the requested time has passed.
UsleepReturn ==
    /\ pcW = "av_usleep"
    /\ sleep_left = 0
    /\ pcW' = "on_frame_decoded"
    /\ UNCHANGED <<libVars, bufVars, phase, packet, ret, frame, framergb,
                   sleep_left, faults, recv_log, pub_log,
                   recv_ret, conv, elapsed, WorkerFrame>>

\* The frame whose bytes b are: RgbaOf read backwards.
FrameOf(b) == FrameOfByte(b[1], 1)

\* ConvertBegin with a new block allocated for every frame.
ConvertBegin_AllocEachFrame ==
    /\ pcW = "on_frame_decoded"
    /\ LET ofstx == CropOffset(s_video_w, s_crop_w)
           ofsty == CropOffset(s_video_h, s_crop_h)
           bytes == ConvertToRgba8888(framergb, s_video_w * 4, ofstx, ofsty,
                                      s_crop_w, s_crop_h)
       IN  /\ copying' = bytes
           /\ pub_log' = Append(pub_log, FrameOf(bytes))
    /\ s_decode_buf' = IF s_decode_buf = 1 THEN 2 ELSE 1
    /\ mem' = [j \in 1..(s_crop_w * s_crop_h * 4) |-> Indeterminate]
    /\ conv' = IF conv = "none" THEN "begun" ELSE conv
    /\ pcW' = "memcpy"
    /\ UNCHANGED <<libVars, phase, packet, ret, frame, framergb, sleep_left,
                   faults, recv_log, recv_ret, elapsed, WorkerFrame>>

\* on_frame_decoded calls convert_to_rgba8888 (lines 190-200); the buffer is
\* allocated on the first call (lines 164-166) and the copy into it begins.
ConvertBegin ==
    /\ pcW = "on_frame_decoded"
    /\ LET ofstx == CropOffset(s_video_w, s_crop_w)
           ofsty == CropOffset(s_video_h, s_crop_h)
           bytes == ConvertToRgba8888(framergb, s_video_w * 4, ofstx, ofsty,
                                      s_crop_w, s_crop_h)
       IN  /\ copying' = bytes
           /\ pub_log' = Append(pub_log, FrameOf(bytes))
    /\ IF s_decode_buf = NULL
       THEN /\ s_decode_buf' = 1
            /\ mem' = [j \in 1..(s_crop_w * s_crop_h * 4) |-> Indeterminate]
       ELSE UNCHANGED <<s_decode_buf, mem>>
    /\ conv' = IF conv = "none" THEN "begun" ELSE conv
    /\ pcW' = "memcpy"
    /\ UNCHANGED <<libVars, phase, packet, ret, frame, framergb, sleep_left,
                   faults, recv_log, recv_ret, elapsed, WorkerFrame>>

\* The copy is complete and convert_to_rgba8888 returns: the drain the frame
\* came from goes on.
ConvertEnd ==
    /\ pcW = "memcpy"
    /\ mem' = [j \in DOMAIN mem |-> IF j \in DOMAIN copying THEN copying[j] ELSE mem[j]]
    /\ copying' = <<>>
    /\ conv' = IF conv = "begun" THEN "done" ELSE conv
    /\ pcW' = IF phase = "packet" THEN "avcodec_receive_frame" ELSE "flush_receive"
    /\ UNCHANGED <<libVars, s_decode_buf, phase, packet, ret, frame, framergb,
                   sleep_left, faults, recv_log, pub_log,
                   recv_ret, elapsed, WorkerFrame>>

\* Line 296: av_packet_unref, then the next av_read_frame.
PacketUnref ==
    /\ pcW = "av_packet_unref"
    /\ packet' = BlankPacket
    /\ pcW' = "av_read_frame"
    /\ UNCHANGED <<libVars, bufVars, phase, ret, frame, framergb, sleep_left,
                   faults, recv_log, pub_log, recv_ret, conv,
                   elapsed, WorkerFrame>>

\* Lines 300-303: the packet variable, as the read loop left it, is sent to
\* the decoder; a failure is only logged.
FlushSend ==
    /\ pcW = "flush_send"
    /\ phase' = "flush"
    /\ \/ /\ dec_objs' = [dec_objs EXCEPT ![s_dec_ctx] = DecSend(@, packet)]
          /\ ret' = 0
          /\ UNCHANGED faults
       \/ /\ faults < MaxFaults
          /\ \E e \in LibErrors : ret' = e
          /\ faults' = faults + 1
          /\ UNCHANGED dec_objs
    /\ pcW' = "flush_receive"
    /\ UNCHANGED <<fmt_objs, bufVars, packet, frame, framergb, sleep_left,
                   recv_log, pub_log, recv_ret, conv,
                   elapsed, WorkerFrame>>

\* AfterFlushReceive handling results as the per-packet drain does.
AfterFlushReceive_Fatal(r) ==
    IF r = 0 THEN "sws_scale"
    ELSE IF r = AVERROR_EAGAIN \/ r = AVERROR_EOF THEN "av_seek_frame"
    ELSE "done"

\* Line 305: the flush drain goes on while avcodec_receive_frame returns 0
\* and ends on any other result.
AfterFlushReceive(r) == IF r = 0 THEN "sws_scale" ELSE "av_seek_frame"

\* Line 305: one avcodec_receive_frame of the flush drain.
FlushReceive ==
    /\ pcW = "flush_receive"
    /\ \E r \in DecReceive(Dec) :
          /\ recv_ret' = r[1]
          /\ dec_objs' = [dec_objs EXCEPT ![s_dec_ctx] = DecAfterReceive(@, r)]
          /\ faults' = IF r[1] = AVERROR_INVALIDDATA THEN faults + 1 ELSE faults
          /\ frame' = IF r[1] = 0 THEN r[2] ELSE frame
          /\ recv_log' = IF r[1] = 0 THEN Append(recv_log, r[2]) ELSE recv_log
          /\ pcW' = AfterFlushReceive(r[1])
    /\ UNCHANGED <<fmt_objs, bufVars, phase, packet, ret, framergb, sleep_left,
                   pub_log, conv, elapsed, WorkerFrame>>

\* Line 314: av_seek_frame back to the start of the container.
SeekFrame ==
    /\ pcW = "av_seek_frame"
    /\ fmt_objs' = [fmt_objs EXCEPT ![s_fmt_ctx].pos = 0]
    /\ pcW' = "avcodec_flush_buffers"
    /\ UNCHANGED <<dec_objs, bufVars, phase, packet, ret, frame, framergb,
                   sleep_left, faults, recv_log, pub_log,
                   recv_ret, conv, elapsed, WorkerFrame>>

\* FlushBuffers with init_duration called once before the loop, not in it.
FlushBuffers_ClockSetOnce ==
    /\ pcW = "avcodec_flush_buffers"
    /\ dec_objs' = [dec_objs EXCEPT ![s_dec_ctx].queue = <<>>,
                                    ![s_dec_ctx].draining = FALSE]
    /\ phase' = "packet"
    /\ recv_log' = <<>> /\ pub_log' = <<>>
    /\ pcW' = "av_read_frame"
    /\ UNCHANGED <<fmt_objs, bufVars, packet, ret, frame, framergb,
                   sleep_left, faults, recv_ret, conv, elapsed, WorkerFrame>>

\* Line 315: avcodec_flush_buffers resets the decoder; the loop begins again.
FlushBuffers ==
    /\ pcW = "avcodec_flush_buffers"
    /\ dec_objs' = [dec_objs EXCEPT ![s_dec_ctx].queue = <<>>,
                                    ![s_dec_ctx].draining = FALSE]
    /\ pcW' = "init_duration"
    /\ UNCHANGED <<fmt_objs, bufVars, phase, packet, ret, frame, framergb,
                   sleep_left, faults, recv_log, pub_log,
                   recv_ret, conv, elapsed, WorkerFrame>>

\* ------------------------------------------------------- the specifications

OpenNext ==
    \/ OpenInput \/ OpenFindStreamInfo \/ OpenFindBestStream
    \/ OpenAllocContext \/ OpenCodecOpen2 \/ OpenCommit

WorkerNext ==
    \/ AllocFrames \/ SwsGetContext \/ InitDuration \/ ReadFrame \/ SendPacket
    \/ ReceiveFrame \/ SwsScale \/ SleepToPts \/ UsleepReturn \/ ConvertBegin
    \/ ConvertEnd \/ PacketUnref \/ FlushSend \/ FlushReceive \/ SeekFrame
    \/ FlushBuffers

ReaderNext ==
    \/ GetVideoDimension \/ GetVideoPixformat \/ GetVideoBuffer \/ ReadBuffer

Next == CallOpen \/ OpenNext \/ StartVideoDecode \/ WorkerNext \/ ReaderNext \/ Tick

Spec == Init /\ [][Next]_vars

\* The worker is a thread of its own and the clock runs: each keeps taking
\* steps while it can.
LiveSpec == Spec /\ WF_vars(WorkerNext) /\ WF_vars(Tick)

\* --------------------------------------------- functions called on their own

\* sleep_to_pts's deadline for two packets of one stream.
PtsUsCalls == [fn : {"pts_us"}, time_base : TimeBases, dts : Timestamps \X Timestamps]

\* convert_to_rgba8888 on a frame of src_w x src_h pixels whose rows are pad
\* bytes longer than the pixels need, for every crop rectangle inside it.
ConvertCalls ==
    {c \in [fn : {"convert_to_rgba8888"}, src_w : 1..MaxDim, src_h : 1..MaxDim,
            pad : {0, 4}, ofstx : 0..MaxDim, ofsty : 0..MaxDim,
            width : 1..MaxDim, height : 1..MaxDim] :
        c.ofstx + c.width <= c.src_w /\ c.ofsty + c.height <= c.src_h}

\* frame->linesize[0] and frame->data[0] of the frame of call c: every byte
\* of the plane differs from the others.
LinesizeOf(c) == c.src_w * 4 + c.pad
PlaneOf(c) == [j \in 1..(LinesizeOf(c) * c.src_h) |-> j % 256]

FnInit ==
    /\ ProgInit
    /\ fn_call \in PtsUsCalls \cup ConvertCalls
    /\ fn_result = NoResult

FnFrame == <<callerVars, sessionVars, libVars, bufVars, workerVars, elapsed,
             r_last, fn_call>>

\* Lines 218-224 for each of the two packets.
CallPtsUs ==
    /\ fn_call.fn = "pts_us" /\ fn_result = NoResult
    /\ fn_result' = [i \in 1..2 |-> pts_us(fn_call.dts[i], fn_call.time_base)]
    /\ UNCHANGED FnFrame

\* Lines 161-186: the bytes the destination holds on return.
CallConvertToRgba8888 ==
    /\ fn_call.fn = "convert_to_rgba8888" /\ fn_result = NoResult
    /\ fn_result' = ConvertToRgba8888(PlaneOf(fn_call), LinesizeOf(fn_call),
                                      fn_call.ofstx, fn_call.ofsty,
                                      fn_call.width, fn_call.height)
    /\ UNCHANGED FnFrame

FnNext == CallPtsUs \/ CallConvertToRgba8888

FnSpec == FnInit /\ [][FnNext]_vars

\* ------------------------------------------------------------------ claims

\* The library calls of a complete open_video_file, in order.
OpenSteps ==
    <<"avformat_open_input", "avformat_find_stream_info", "av_find_best_stream",
      "avcodec_alloc_context3", "avcodec_open2">>

\* The position of library call c in OpenSteps.
StepNo(c) == CHOOSE i \in 1..Len(OpenSteps) : OpenSteps[i] = c

\* What open_video_file returns when `failed` is the first failure: -1 for
\* the container open, ENOMEM for the decoder allocation, the library's own
\* result for the other calls.
OpenErrorOf(failed) ==
    IF failed[1] = "avformat_open_input" THEN -1
    ELSE IF failed[1] = "avcodec_alloc_context3" THEN AVERROR_ENOMEM
    ELSE failed[2]

\* C1: open_video_file returns 0 exactly when all five library steps
\* succeeded; when a step fails it returns the nonzero error of the first
\* step that failed, and the steps after that one were not attempted.
C1_OpenReturnsFirstFailure ==
    OpenReturned =>
        /\ (LastOpenRet = 0) <=> (open_failed = <<>>)
        /\ open_failed = <<>> => open_calls = OpenSteps
        /\ open_failed # <<>> =>
              /\ LastOpenRet # 0
              /\ LastOpenRet = OpenErrorOf(open_failed)
              /\ open_calls = SubSeq(OpenSteps, 1, StepNo(open_failed[1]))

\* C1 witness: an open has returned after its decoder failed to open.
C1_Witness ==
    /\ OpenReturned /\ open_failed # <<>>
    /\ open_failed[1] = "avcodec_open2" /\ LastOpenRet = open_failed[2]

\* The running or last open found no video stream.
NoVideoStream == open_failed # <<>> /\ open_failed[1] = "av_find_best_stream"

\* C2: once an open has found no video stream it returns a failure, and in
\* every state from then on no worker has been started and no frame has been
\* published.
C2_NoVideoStreamNoWorker ==
    NoVideoStream =>
        /\ OpenReturned => LastOpenRet = AVERROR_STREAM_NOT_FOUND
        /\ ~started /\ pcW = "idle"
        /\ s_decode_buf = NULL /\ conv = "none" /\ pub_log = <<>>

\* C2 witness: open_video_file has returned the no-video-stream failure.
C2_Witness == NoVideoStream /\ OpenReturned /\ LastOpenRet < 0

\* The worker holds a frame it received and has not yet begun to publish.
FramePending == pcW \in {"sws_scale", "sleep_to_pts", "av_usleep", "on_frame_decoded"}

\* C3: in every pass the frames written to the published buffer are, in
\* order, the frames avcodec_receive_frame returned (per-packet and flush
\* drains together): nothing skipped, duplicated or reordered, and at most
\* the one frame in hand not yet written.
C3_PublishedInDecodeOrder ==
    /\ Len(pub_log) <= Len(recv_log)
    /\ pub_log = SubSeq(recv_log, 1, Len(pub_log))
    /\ Len(recv_log) = Len(pub_log) + (IF FramePending THEN 1 ELSE 0)

\* C3 witness: a second frame is being published although the clock is
\* already past its deadline.
C3_Witness ==
    /\ pcW = "memcpy" /\ Len(pub_log) >= 2 /\ pub_log = recv_log
    /\ get_duration_us > pts_us(packet.dts, time_base)

\* The reader made a call (one whose result differs from the last one's).
ReaderStep == r_last'.fn # r_last.fn \/ r_last'.val # r_last.val

\* C4: every change of the buffer (its reference, its bytes, a copy into it)
\* is a step of the worker inside convert_to_rgba8888, and a call of an
\* accessor changes nothing but the caller's result.
C4_SingleWriter ==
    [][ /\ (s_decode_buf' # s_decode_buf \/ mem' # mem \/ copying' # copying)
            => (pcW \in {"on_frame_decoded", "memcpy"} /\ pcW' # pcW)
        /\ ReaderStep => UNCHANGED <<callerVars, sessionVars, libVars, bufVars,
                                     workerVars, elapsed>> ]_vars

\* C4 witness: the reader has read a buffer the worker filled and went on
\* to fill again.
C4_Witness == r_last.fn = "read" /\ conv = "done" /\ pcW = "memcpy"

\* C5: a read of the buffer returns bytes of more than one frame only when
\* it overlaps a copy by the worker, and then it holds bytes of the frame
\* being replaced and of the frame being copied in (witness: such a read
\* happens).
C5_TornOnlyDuringCopy ==
    [][ (ReaderStep /\ r_last'.fn = "read" /\ Cardinality(r_last'.val) > 1)
           => /\ copying # <<>>
              /\ r_last'.val = FramesIn(mem) \cup FramesIn(copying) ]_vars

\* C5 witness: the reader observed a buffer holding some bytes of frame N
\* and some bytes of frame N+1.
C5_Witness ==
    /\ r_last.fn = "read"
    /\ \E n \in 1..Len(Container) : r_last.val = {n, n + 1}

DecodeError(r) == r < 0 /\ r # AVERROR_EAGAIN /\ r # AVERROR_EOF

\* C7 (as claimed): when avcodec_send_packet fails in the read loop, the
\* worker goes on with the release of that packet and the next
\* av_read_frame of the same pass; it does not flush, seek or terminate.
C7_SubmitErrorContinuesPass ==
    [][ (pcW = "avcodec_send_packet" /\ pcW' # pcW /\ ret' < 0)
           => pcW' \in {"av_packet_unref", "av_read_frame"} ]_vars

\* C8 (as claimed): a DecodeError from avcodec_receive_frame, in the
\* per-packet drain or in the flush drain, terminates the worker.
C8_DecodeErrorAlwaysFatal ==
    [][ (pcW \in {"avcodec_receive_frame", "flush_receive"} /\ pcW' # pcW
            /\ DecodeError(recv_ret'))
           => pcW' = "done" ]_vars

\* C8 (amended): a DecodeError in the per-packet drain terminates the
\* worker, and a terminated worker stays terminated and publishes nothing
\* more; in the flush drain every result other than a frame, a DecodeError
\* included, only ends the drain, and the worker goes on to seek back.
C8_DecodeErrorFatalInPacketDrain ==
    [][ /\ (pcW = "avcodec_receive_frame" /\ pcW' # pcW /\ DecodeError(recv_ret'))
            => pcW' = "done"
        /\ (pcW = "flush_receive" /\ pcW' # pcW /\ recv_ret' # 0)
            => pcW' = "av_seek_frame"
        /\ pcW = "done" => (pcW' = "done" /\ UNCHANGED <<bufVars, pub_log>>) ]_vars

\* C8 witness: the worker has terminated on a DecodeError after it had
\* published a frame.
C8_Witness == pcW = "done" /\ DecodeError(recv_ret) /\ conv = "done"

InLoop == pcW \notin {"idle", "alloc_frames", "sws_getContext", "done"}

C10_PacedToTimestamps ==
    pcW = "memcpy" =>
        /\ get_duration_us >= pts_us(packet.dts, time_base)
        /\ Fmt.file = 1 =>
              get_duration_us >= pts_us(Container[FrameOf(copying)].dts, time_base)

\* C11: sleep_to_pts asks av_usleep for exactly the deadline minus the time
\* elapsed since the clock reset when that is positive and does not sleep
\* when it is zero or negative; either way it returns, and the frame in hand
\* is the next thing published; no requested sleep is negative.
C11_SleepsForTheDifference ==
    [][ /\ (pcW = "sleep_to_pts" /\ pcW' # pcW) =>
              LET d == pts_us(packet.dts, time_base) - elapsed * TickUs
              IN  IF d > 0 THEN pcW' = "av_usleep" /\ sleep_left' = d
                  ELSE pcW' = "on_frame_decoded" /\ sleep_left' = 0
        /\ (pcW = "av_usleep" /\ pcW' # pcW) =>
              (sleep_left = 0 /\ pcW' = "on_frame_decoded")
        /\ (pcW = "on_frame_decoded" /\ pcW' # pcW) =>
              (pcW' = "memcpy" /\ FrameOf(copying') = frame)
        /\ sleep_left' >= 0 ]_vars

\* C11 witness: a quarter of a second into the pass the worker is asleep for
\* the remaining quarter second to the half-second deadline of frame 2.
C11_Witness ==
    /\ pcW = "av_usleep" /\ Fmt.file = 1 /\ frame = 2
    /\ elapsed = 1 /\ sleep_left = 250000

\* The timestamp sleep_to_pts takes a packet to have: 0 when it has none.
TimestampOf(dts) == IF dts = AV_NOPTS_VALUE THEN 0 ELSE dts

\* C12: for a fixed time base (and the fixed speed), of two packets with
\* timestamps t1 <= t2 (negative ones included, no timestamp counting as
\* 0) the first has a deadline no later than the second.
C12_DeadlineMonotonic ==
    (fn_call.fn = "pts_us" /\ fn_result # NoResult) =>
        (TimestampOf(fn_call.dts[1]) <= TimestampOf(fn_call.dts[2])
            => fn_result[1] <= fn_result[2])

\* C12 witness: the deadlines of a packet with timestamp -1 and of a packet
\* with no timestamp, time base 1/128.
C12_Witness ==
    /\ fn_call.fn = "pts_us" /\ fn_call.time_base = <<1, 128>>
    /\ fn_call.dts = <<-1, AV_NOPTS_VALUE>>
    /\ fn_result = <<-7812, 0>>

RECURSIVE GCD(_, _)
GCD(a, b) == IF b = 0 THEN a ELSE GCD(b, a % b)

\* The timestamp of a packet in time base tb expressed in microseconds,
\* computed exactly: dts * num / den * 1000000, truncated toward zero.
ExactUs(dts, tb) ==
    LET g == GCD(1000000, tb[2])
    IN  TruncDiv(TimestampOf(dts) * tb[1] * (1000000 \div g), tb[2] \div g)

\* The time base scaled to microseconds is a double without rounding.
ScaleIsExact(tb) == \E k \in 0..16 : tb[2] = 2^k

\* 1 microsecond closer to zero than e.
TowardZero(e) == IF e > 0 THEN e - 1 ELSE IF e < 0 THEN e + 1 ELSE 0

\* C13 (as claimed): the deadline of a packet is its decode timestamp times
\* numerator / denominator * 1000000, divided by the playback speed and
\* truncated to an integer: with speed 1.0, the timestamp in microseconds.
C13_DeadlineIsExactMicroseconds ==
    (fn_call.fn = "pts_us" /\ fn_result # NoResult) =>
        \A i \in 1..2 :
            fn_result[i] = TruncDiv(ExactUs(fn_call.dts[i], fn_call.time_base),
                                    PLAY_SPEED)

\* C13 (amended): the deadline is the timestamp multiplied in double
\* precision by the time base scaled to microseconds, truncated, then
\* divided by the speed and truncated: with speed 1.0 it is the timestamp in
\* microseconds truncated toward zero when the scaled time base is an exact
\* double, and otherwise that value or the one 1 microsecond closer to zero.
C13_DeadlineIsDoubleMicroseconds ==
    (fn_call.fn = "pts_us" /\ fn_result # NoResult) =>
        \A i \in 1..2 :
            LET e == TruncDiv(ExactUs(fn_call.dts[i], fn_call.time_base), PLAY_SPEED)
            IN  /\ fn_result[i] \in {e, TowardZero(e)}
                /\ ScaleIsExact(fn_call.time_base) => fn_result[i] = e

\* C13 witness: timestamps 15 and -1 in time base 1001/30000, which are
\* 500500 and -33366.67 microseconds, get the deadlines 500499 and -33366.
C13_Witness ==
    /\ fn_call.fn = "pts_us" /\ fn_call.time_base = <<1001, 30000>>
    /\ fn_call.dts = <<15, -1>>
    /\ fn_result = <<500499, -33366>>

\* An open_video_file call has succeeded.
SessionOpen == \E i \in 1..Len(open_rets) : open_rets[i] = 0

\* C14: after a successful open the crop rectangle lies within the source
\* frame, 0 <= crop_w <= source_w and 0 <= crop_h <= source_h; the offsets
\* on_frame_decoded passes to the converter for every frame are
\* (source_w - crop_w)/2 and (source_h - crop_h)/2, and for every crop that
\* lies within the source, offset + crop does not exceed the source.
C14_CropWithinSource ==
    /\ [](SessionOpen =>
            /\ 0 <= s_crop_w /\ s_crop_w <= s_video_w
            /\ 0 <= s_crop_h /\ s_crop_h <= s_video_h
            /\ \A v \in 0..(MaxDim + 1) : \A c \in 0..v :
                  /\ CropOffset(v, c) = (v - c) \div 2
                  /\ CropOffset(v, c) + c <= v)
    /\ [][ (pcW = "on_frame_decoded" /\ pcW' # pcW) =>
              copying' = ConvertToRgba8888(framergb, s_video_w * 4,
                                           (s_video_w - s_crop_w) \div 2,
                                           (s_video_h - s_crop_h) \div 2,
                                           s_crop_w, s_crop_h) ]_vars

\* C14 witness: after the open of file 2 the worker converts a frame with
\* the crop rectangle the open derived, the whole 1 x 1 frame at offset 0.
C14_Witness ==
    /\ SessionOpen /\ pcW = "memcpy" /\ Fmt.file = 2
    /\ <<s_crop_w, s_crop_h>> = <<1, 1>> /\ <<s_video_w, s_video_h>> = <<1, 1>>
    /\ CropOffset(s_video_w, s_crop_w) = 0 /\ Len(copying) = 4

\* The geometry the session reports: source size, crop size, pixel format.
geometry == <<s_video_w, s_video_h, s_crop_w, s_crop_h, s_video_fmt>>

\* C15: after a successful open every get_video_dimension call returns the
\* same pair, the crop size that open derived from the file, whatever the
\* worker has done in between; only the commit of a successful open writes
\* the source size, the crop size or the pixel format, no step of the
\* worker does.
C15_DimensionsStable ==
    [][ /\ (SessionOpen /\ ReaderStep /\ r_last'.fn = "get_video_dimension") =>
              r_last'.val = <<Files[Fmt.file].w, Files[Fmt.file].h>>
        /\ geometry' # geometry => pcM = "commit"
        /\ (workerVars' # workerVars \/ bufVars' # bufVars)
              => geometry' = geometry ]_vars

\* C15 witness: get_video_dimension returned the crop size of the open file
\* and the worker, having published a frame, has terminated on a decode
\* error.
C15_Witness ==
    /\ r_last = [fn |-> "get_video_dimension", val |-> <<1, 1>>]
    /\ pcW = "done" /\ conv = "done" /\ DecodeError(recv_ret)

\* convert_to_rgba8888 was called on its own and has returned.
Converted == fn_call.fn = "convert_to_rgba8888" /\ fn_result # NoResult

\* C16: for every crop rectangle with zero offsets the destination holds,
\* byte for byte, the first crop_w * crop_h * 4 bytes of the source plane;
\* a crop equal to the full source dimensions gives the first
\* src_w * src_h * 4 bytes, which for a packed frame is the whole frame.
C16_ZeroOffsetCopiesPrefix ==
    (Converted /\ fn_call.ofstx = 0 /\ fn_call.ofsty = 0) =>
        /\ fn_result = SubSeq(PlaneOf(fn_call), 1, fn_call.width * fn_call.height * 4)
        /\ (fn_call.width = fn_call.src_w /\ fn_call.height = fn_call.src_h
               /\ fn_call.pad = 0) => fn_result = PlaneOf(fn_call)

\* C16 witness: a 1 x 2 crop at offset 0 of a 2 x 2 frame with padded rows
\* came out as the first 8 bytes of the plane.
C16_Witness ==
    /\ Converted /\ fn_call.ofstx = 0 /\ fn_call.ofsty = 0
    /\ fn_call.src_w = 2 /\ fn_call.src_h = 2 /\ fn_call.pad = 4
    /\ fn_call.width = 1 /\ fn_call.height = 2
    /\ fn_result = <<1, 2, 3, 4, 5, 6, 7, 8>>

\* C17: for every crop rectangle with a nonzero offset, row y of the
\* destination (crop_w * 4 bytes from y * crop_w * 4) holds the bytes
\* [ofstx * 4, ofstx * 4 + crop_w * 4) of source row y + ofsty, source rows
\* being linesize bytes apart.
C17_OffsetCopiesRowSlices ==
    (Converted /\ (fn_call.ofstx # 0 \/ fn_call.ofsty # 0)) =>
        /\ Len(fn_result) = fn_call.width * fn_call.height * 4
        /\ \A y \in 0..(fn_call.height - 1) :
              LET row == (y + fn_call.ofsty) * LinesizeOf(fn_call)
                  from == row + fn_call.ofstx * 4
              IN  SubSeq(fn_result, y * fn_call.width * 4 + 1, (y + 1) * fn_call.width * 4)
                    = SubSeq(PlaneOf(fn_call), from + 1, from + fn_call.width * 4)

\* C17 witness: the 1 x 1 crop at offset (1, 1) of a 2 x 2 frame whose rows
\* are 12 bytes apart came out as bytes 17..20 of the plane.
C17_Witness ==
    /\ Converted /\ fn_call.ofstx = 1 /\ fn_call.ofsty = 1
    /\ fn_call.src_w = 2 /\ fn_call.src_h = 2 /\ fn_call.pad = 4
    /\ fn_call.width = 1 /\ fn_call.height = 1
    /\ fn_result = <<17, 18, 19, 20>>

\* The worker is about to read the next packet, or has left the read loop.
PastPacket ==
    \/ pcW \in {"av_read_frame", "flush_send", "flush_receive", "av_seek_frame",
                "avcodec_flush_buffers", "init_duration", "done"}
    \/ phase = "flush"

\* C18 (as claimed): every packet av_read_frame returned has been released,
\* once, when the worker reads the next packet or leaves the read loop, on
\* every path: av_packet_unref runs only on a packet that holds data, and
\* past the packet's handling the packet variable holds none.
C18_PacketReleasedOnEveryPath ==
    /\ pcW = "av_packet_unref" => packet.data
    /\ (InLoop \/ pcW = "done") /\ PastPacket => ~packet.data

\* The packets of the container that belong to the video stream, by number:
\* the frames one pass decodes.
VideoFrames ==
    SelectSeq([i \in 1..Len(Container) |-> i],
              LAMBDA i : Container[i].stream_index = s_video_stream_index)

\* The read loop ended at the end of the container and the flush drain is
\* over: the worker is about to seek back.
FlushDone == pcW = "av_seek_frame" /\ ~packet.data

C20_PassTransitionOrder ==
    [][ /\ (pcW = "av_seek_frame" /\ pcW' # pcW) =>
              /\ pcW' = "avcodec_flush_buffers"
              /\ fmt_objs'[s_fmt_ctx].pos = 0 /\ UNCHANGED <<bufVars, elapsed>>
        /\ (pcW = "avcodec_flush_buffers" /\ pcW' # pcW) =>
              /\ pcW' = "init_duration"
              /\ dec_objs'[s_dec_ctx].queue = <<>> /\ ~dec_objs'[s_dec_ctx].draining
              /\ Fmt.pos = 0 /\ UNCHANGED <<fmt_objs, bufVars, elapsed>>
        /\ (pcW = "init_duration" /\ pcW' # pcW) =>
              /\ pcW' = "av_read_frame" /\ elapsed' = 0
              /\ Fmt.pos = 0 /\ Dec.queue = <<>> /\ ~Dec.draining
              /\ UNCHANGED <<libVars, bufVars>>
        /\ (pcW' = "init_duration" /\ pcW' # pcW) =>
              pcW \in {"sws_getContext", "avcodec_flush_buffers"}
        /\ (pcW' = "av_read_frame" /\ pcW' # pcW) =>
              pcW \in {"init_duration", "av_packet_unref"}
        /\ elapsed' < elapsed => pcW = "init_duration" ]_vars

\* C20 witness: a new pass of the two-frame file has begun after a pass that
\* published frame 2: the container is at its start, the decoder empty, the
\* clock at zero, and the first packet is about to be read.
C20_Witness ==
    /\ pcW = "av_read_frame" /\ Fmt.file = 1 /\ Fmt.pos = 0
    /\ FramesIn(mem) = {2} /\ copying = <<>> /\ pub_log = <<>>
    /\ Dec.queue = <<>> /\ ~Dec.draining /\ elapsed = 0 /\ recv_ret = AVERROR_EOF

\* The worker is in the pacing wait of the frame in hand.
Pacing == pcW \in {"sleep_to_pts", "av_usleep"}

\* C21: every frame received goes through sws_scale, then the pacing wait,
\* and only when that has returned is the published buffer written; while
\* the worker is in the pacing wait no copy is in progress and the buffer
\* (reference and bytes) does not change, and the copy of the next frame
\* begins no earlier than the deadline sleep_to_pts computed for it.
C21_PaceThenPublish ==
    /\ [](Pacing => copying = <<>>)
    /\ [](pcW = "memcpy" => get_duration_us >= pts_us(packet.dts, time_base))
    /\ [][ /\ (pcW \in {"avcodec_receive_frame", "flush_receive"} /\ pcW' # pcW
                 /\ recv_ret' = 0) => pcW' = "sws_scale"
           /\ (pcW = "sws_scale" /\ pcW' # pcW) => pcW' = "sleep_to_pts"
           /\ (pcW' = "on_frame_decoded" /\ pcW' # pcW) =>
                 /\ Pacing
                 /\ pcW = "av_usleep" => sleep_left = 0
                 /\ pcW = "sleep_to_pts" => delay_us(packet) <= 0
           /\ (Pacing \/ pcW = "sws_scale") => UNCHANGED bufVars
           /\ bufVars' # bufVars => pcW \in {"on_frame_decoded", "memcpy"} ]_vars

\* C21 witness: while the worker sleeps until the deadline of frame 2 the
\* reader has read the buffer and found frame 1, whole.
C21_Witness ==
    /\ pcW = "av_usleep" /\ sleep_left > 0 /\ frame = 2
    /\ mem = RgbaOf(1, s_crop_w, s_crop_h)
    /\ r_last = [fn |-> "read", val |-> {1}]

\* avcodec_receive_frame results that end a drain without a failure.
NoFrameYet == {AVERROR_EAGAIN, AVERROR_EOF}

\* C22: on EAGAIN or EOF from avcodec_receive_frame in the per-packet drain
\* the worker leaves the drain for av_packet_unref, with nothing written to
\* the buffer and nothing published, and from there goes to the next
\* av_read_frame with the container where it was and the clock not reset;
\* it does not terminate, flush or seek on the way.
C22_WouldBlockReadsNextPacket ==
    /\ [](\A r \in NoFrameYet : AfterReceive(r) = "av_packet_unref")
    /\ [][ /\ (pcW = "avcodec_receive_frame" /\ pcW' # pcW /\ recv_ret' \in NoFrameYet)
                => /\ pcW' = "av_packet_unref"
                   /\ UNCHANGED <<bufVars, pub_log, recv_log, fmt_objs, phase,
                                  packet, elapsed>>
           /\ (pcW = "av_packet_unref" /\ pcW' # pcW)
                => /\ pcW' = "av_read_frame"
                   /\ UNCHANGED <<bufVars, pub_log, recv_log, libVars, phase,
                                  elapsed>> ]_vars

\* C22 witness: the decoder held back the frame of packet 1 (EAGAIN), nothing
\* was published, and the worker is about to read packet 2 of the same pass.
C22_Witness ==
    /\ pcW = "av_read_frame" /\ recv_ret = AVERROR_EAGAIN
    /\ Fmt.file = 1 /\ Fmt.pos = 1 /\ Dec.queue = <<1>>
    /\ pub_log = <<>> /\ recv_log = <<>> /\ s_decode_buf = NULL /\ phase = "packet"

\* The packet in hand was read from the container and is not of the selected
\* video stream.
OtherStream == packet.data /\ packet.stream_index # s_video_stream_index

\* C23: a packet of another stream goes from av_read_frame straight to
\* av_packet_unref and on to the next av_read_frame: while it is in hand the
\* worker is at av_packet_unref and nowhere else, and
\* the decoder, the clock's base, the buffer and the logs of received and
\* published frames do not change; the decoder holds frames of packets of
\* the selected stream only.
C23_OtherStreamsSkipped ==
    /\ [](OtherStream => pcW = "av_packet_unref")
    /\ [](InLoop => \A i \in 1..Len(Dec.queue) :
                       Container[Dec.queue[i]].stream_index = s_video_stream_index)
    /\ [][ /\ (pcW = "av_read_frame" /\ pcW' # pcW /\ OtherStream')
                => UNCHANGED <<dec_objs, bufVars, recv_log, pub_log, recv_ret,
                               sleep_left, elapsed>>
           /\ (OtherStream /\ pcW' # pcW)
                => /\ pcW' = "av_read_frame" /\ ~packet'.data
                   /\ UNCHANGED <<libVars, bufVars, recv_log, pub_log, recv_ret,
                                  sleep_left, elapsed>>
           /\ (pcW' = "avcodec_send_packet" /\ pcW' # pcW)
                => packet'.stream_index = s_video_stream_index ]_vars

\* C23 witness: the audio packet that file 2 begins with has been read and
\* released; the decoder got nothing, avcodec_receive_frame was never
\* called, no frame was published, and the next packet is about to be read.
C23_Witness ==
    /\ pcW = "av_read_frame" /\ Fmt.file = 2 /\ Fmt.pos = 1
    /\ Container[1].stream_index # s_video_stream_index
    /\ Dec.queue = <<>> /\ recv_ret = 0 /\ recv_log = <<>> /\ pub_log = <<>>
    /\ s_decode_buf = NULL /\ conv = "none"

\* The packet sleep_to_pts is given has no decode timestamp.
NoTimestamp == packet.dts = AV_NOPTS_VALUE

\* C24: for a packet without decode timestamp the deadline is 0; the time
\* elapsed since the clock reset is never negative, so sleep_to_pts does not
\* call av_usleep for it and the worker goes straight on to on_frame_decoded.
C24_NoTimestampNoSleep ==
    /\ [](elapsed >= 0)
    /\ [](pcW \in {"sleep_to_pts", "av_usleep", "on_frame_decoded"} /\ NoTimestamp
             => /\ pts_us(packet.dts, time_base) = 0
                /\ delay_us(packet) <= 0
                /\ pcW # "av_usleep" /\ sleep_left = 0)
    /\ [][ (pcW = "sleep_to_pts" /\ pcW' # pcW /\ NoTimestamp)
              => (pcW' = "on_frame_decoded" /\ sleep_left' = 0) ]_vars

\* C24 witness: half a second into the pass the frame of file 2's packet
\* without timestamp has come through sleep_to_pts without a sleep, in the
\* per-packet drain.
C24_Witness ==
    /\ pcW = "on_frame_decoded" /\ phase = "packet" /\ Fmt.file = 2
    /\ packet.data /\ NoTimestamp /\ frame = packet.idx
    /\ elapsed = 2 /\ sleep_left = 0

\* The size of the block s_decode_buf points to, in bytes.
BufSize == Len(mem)

\* C25: s_decode_buf is written once, by the first convert_to_rgba8888 call,
\* which allocates crop_w * crop_h * 4 bytes; from then on the reference and
\* the size of the block never change, whatever frames and passes follow, and
\* a get_video_buffer call that returns a non-null reference returns that
\* one.
C25_BufferAllocatedOnce ==
    /\ [](s_decode_buf # NULL => BufSize = s_crop_w * s_crop_h * 4)
    /\ [](conv = "none" <=> s_decode_buf = NULL)
    /\ [](r_last.fn = "get_video_buffer" /\ r_last.val # NULL
             => r_last.val = s_decode_buf)
    /\ [][ /\ s_decode_buf' # s_decode_buf
                => /\ s_decode_buf = NULL /\ conv = "none"
                   /\ pcW = "on_frame_decoded" /\ pcW' = "memcpy"
                   /\ Len(mem') = s_crop_w * s_crop_h * 4
           /\ s_decode_buf # NULL
                => (s_decode_buf' = s_decode_buf /\ Len(mem') = BufSize)
           /\ (r_last.fn = "get_video_buffer" /\ r_last.val # NULL
                 /\ r_last'.fn = "get_video_buffer")
                => r_last'.val = r_last.val ]_vars

\* C25 witness: get_video_buffer has returned the reference once more while,
\* in a later pass, frame 1 is copied over frame 2 in the same 4-byte block.
C25_Witness ==
    /\ r_last = [fn |-> "get_video_buffer", val |-> s_decode_buf]
    /\ s_decode_buf # NULL /\ BufSize = 4
    /\ pcW = "memcpy" /\ Fmt.file = 1 /\ Fmt.pos = 1
    /\ FramesIn(mem) = {2} /\ FrameOf(copying) = 1

\* A call of the worker's setup failed.
SetupFailed == setup_failed # "none"

\* C26: when an av_frame_alloc or sws_getContext fails at the start of
\* decode_thread_main the thread returns: from then on the worker is
\* terminated, no packet was read, nothing was sent to the decoder or
\* received from it, nothing was published, and s_decode_buf is NULL, which
\* is what get_video_buffer returns.
C26_SetupFailureTerminates ==
    /\ [](SetupFailed =>
            /\ pcW = "done"
            /\ Fmt.pos = 0 /\ ~packet.data /\ Dec.queue = <<>>
            /\ recv_ret = 0 /\ recv_log = <<>> /\ pub_log = <<>>
            /\ s_decode_buf = NULL /\ mem = <<>> /\ copying = <<>> /\ conv = "none"
            /\ r_last.fn = "get_video_buffer" => r_last.val = NULL)
    /\ [][ /\ (pcW \in {"alloc_frames", "sws_getContext"} /\ pcW' = "done")
                => (SetupFailed' /\ UNCHANGED <<libVars, bufVars>>)
           /\ SetupFailed => (pcW' = "done" /\ UNCHANGED <<setup_failed, bufVars>>)
           /\ (pcW' = "av_read_frame" /\ pcW' # pcW) => ~SetupFailed ]_vars

\* C26 witness: sws_getContext failed, half a second later the worker is
\* still terminated and get_video_buffer has returned NULL.
C26_Witness ==
    /\ setup_failed = "sws_getContext" /\ pcW = "done" /\ elapsed = 2
    /\ r_last = [fn |-> "get_video_buffer", val |-> NULL]

\* The session state a successful open of file f leaves when it is the
\* first open of the run, and the session state before any open.
SessionOf(f) ==
    <<1, 1, [ctx |-> 1, index |-> 0], 0,
      Files[f].w, Files[f].h, Files[f].w, Files[f].h, Files[f].pix_fmt>>
NoSession == <<NULL, NULL, NoStream, -1, 0, 0, 0, 0, 0>>

\* The running or last open_video_file call has failed.
OpenFailing == open_failed # <<>>

\* C27: no step of an open_video_file call that fails writes the session
\* state: the statics are written by the commit of a successful call only,
\* and after a failed call they hold what they held before it, the initial
\* values when it was the first call and the state the first call left when
\* it was the second; get_video_dimension and get_video_pixformat return the
\* statics.
C27_FailedOpenKeepsSession ==
    /\ [](OpenFailing /\ Len(open_rets) = (IF OpenReturned THEN 1 ELSE 0)
             => sessionVars = NoSession)
    /\ [](OpenFailing /\ Len(open_rets) = (IF OpenReturned THEN 2 ELSE 1)
             => /\ open_rets[1] = 0
                /\ sessionVars = SessionOf(fmt_objs[1].file))
    /\ [][ /\ sessionVars' # sessionVars
                => (pcM = "commit" /\ ~OpenFailing /\ open_rets' = Append(open_rets, 0))
           /\ (Len(open_rets') > Len(open_rets) /\ open_rets'[Len(open_rets')] # 0)
                => (OpenFailing' /\ UNCHANGED sessionVars)
           /\ (ReaderStep /\ r_last'.fn = "get_video_dimension")
                => r_last'.val = <<s_crop_w, s_crop_h>>
           /\ (ReaderStep /\ r_last'.fn = "get_video_pixformat")
                => r_last'.val = s_video_fmt ]_vars

\* C27 witness: after a successful open of file 2 an open of file 1 got as
\* far as avcodec_open2 and failed there; the session is still that of
\* file 2, and get_video_pixformat has returned file 2's format.
C27_Witness ==
    /\ OpenReturned /\ Len(open_rets) = 2 /\ open_rets[1] = 0 /\ LastOpenRet < 0
    /\ OpenFailing /\ open_failed[1] = "avcodec_open2"
    /\ o.fname = 1 /\ o.fmt_ctx = 2 /\ o.dec_ctx = 2
    /\ sessionVars = SessionOf(2)
    /\ r_last = [fn |-> "get_video_pixformat", val |-> Files[2].pix_fmt]

\* C28 (as claimed): when get_video_buffer has returned a non-null reference
\* the first copy of a frame into the buffer is complete, and a read through
\* the reference finds no byte that was never written.
C28_NonNullAfterFirstCopy ==
    /\ (r_last.fn = "get_video_buffer" /\ r_last.val # NULL) => conv = "done"
    /\ r_last.fn = "read" => Indeterminate \notin r_last.val

\* The last packet of the video stream a complete pass submits.
LastVideoPacket == Container[VideoFrames[Len(VideoFrames)]]

\* C29 (as claimed): a frame of the flush drain at the end of the container
\* is published no earlier than the deadline of the last video packet
\* submitted in the pass.
C29_FlushPacedToLastPacket ==
    (phase = "flush" /\ ~packet.data /\ pcW = "memcpy") =>
        get_duration_us >= pts_us(LastVideoPacket.dts, time_base)

=============================================================================
